---- MODULE Spec2Model ----
(***************************************************************************)
(* PrototypeTester.js v2: the testing overlay controller                   *)
(* (src/prototype-tester/prototype-tester.js).                             *)
(*                                                                         *)
(* The controller is a single-threaded, event-driven state machine.  Each  *)
(* action below is one callback of the source: a click handler of the bar  *)
(* or of a modal, the document-level click recorder, a goal-event          *)
(* listener, the public taskCompleted() entry point, a setTimeout or       *)
(* setInterval callback.  The functions of the source are operators that   *)
(* map a controller state st (a record of all mutable parts) to the state  *)
(* after the call; they keep the names of the source.                      *)
(*                                                                         *)
(* Encoding of JavaScript values:                                          *)
(*   null / undefined   None == << >>, a present value v is Some(v)        *)
(*   falsy string       ""  (task.goalEvent absent)                        *)
(*   falsy number       0   (task.lookDuration absent)                     *)
(*   falsy URL / key    ""  (null in _cfg)                                 *)
(*   answer strings     sequences of one-character strings, so that        *)
(*                      toLowerCase() and trim() are computed              *)
(***************************************************************************)
EXTENDS Integers, Sequences, FiniteSets, TLC

VARIABLES
    cfg,        \* PT._cfg after init(config), with the config it was given
    s,          \* PT._s: the session state singleton
    dom,        \* the overlay's DOM: the modal shown, the bar and its controls
    listeners,  \* goal listeners registered on the document
    timers,     \* pending setTimeout callbacks of _goalReached, in firing order
    iv,         \* the recall countdown's setInterval and its closure
    sent,       \* the payloads built by _submit, in order
    net,        \* the network writes of _submit in flight, and the files it downloaded
    now         \* Date.now(), in ms since init()

vars == <<cfg, s, dom, listeners, timers, iv, sent, net, now>>

(***************************************************************************)
(* Bounds of the model.                                                    *)
(***************************************************************************)
\* idle seconds a session may spend beyond its look windows and goal delays
MaxSeconds == 0
\* host-page clicks recorded per task
MaxClicks == 1
\* goal modals pending in their 300 ms delay at one time
MaxTimers == 1
\* TaskResults a submitted session may hold beyond one per task before it
\* stops appending
MaxExtraResults == 1
\* steps of 3750 ms a tester may wait on the final-feedback form
MaxIdleSteps == 34

(***************************************************************************)
(* Program constants.                                                      *)
(***************************************************************************)
\* setTimeout(..., 300) in _goalReached
GoalDelayMs == 300
\* setInterval(..., 1000) of the recall countdown and of the live timer
IntervalMs == 1000
\* task.lookDuration || 5000
DefaultLookMs == 5000

None == << >>
Some(v) == <<v>>

(***************************************************************************)
(* Strings that the code inspects character by character.                  *)
(***************************************************************************)
\* String.prototype.toLowerCase on one character
LowerChar(c) ==
    CASE c = "A" -> "a"
      [] c = "B" -> "b"
      [] OTHER -> c

\* String.prototype.toLowerCase
toLowerCase(str) == [i \in 1..Len(str) |-> LowerChar(str[i])]

RECURSIVE TrimLeft(_)
TrimLeft(str) ==
    IF str # << >> /\ Head(str) = " " THEN TrimLeft(Tail(str)) ELSE str

RECURSIVE TrimRight(_)
TrimRight(str) ==
    IF str # << >> /\ str[Len(str)] = " "
    THEN TrimRight(SubSeq(str, 1, Len(str) - 1))
    ELSE str

\* String.prototype.trim
trim(str) == TrimRight(TrimLeft(str))

\* a trim that removes leading white space only
RECURSIVE trimText_LeftOnly(_)
trimText_LeftOnly(txt) ==
    IF Len(txt) > 0 /\ SubSeq(txt, 1, 1) = " "
    THEN trimText_LeftOnly(SubSeq(txt, 2, Len(txt)))
    ELSE txt

\* String.prototype.trim on the value of a comment field
RECURSIVE trimText(_)
trimText(txt) ==
    IF Len(txt) > 0 /\ SubSeq(txt, 1, 1) = " "
    THEN trimText(SubSeq(txt, 2, Len(txt)))
    ELSE IF Len(txt) > 0 /\ SubSeq(txt, Len(txt), Len(txt)) = " "
    THEN trimText(SubSeq(txt, 1, Len(txt) - 1))
    ELSE txt

(***************************************************************************)
(* Task definitions (README "Task types") and the task lists explored.     *)
(***************************************************************************)
Task(id, type, goalEvent, lookDuration, options, correctAnswer) ==
    [id |-> id, type |-> type, goalEvent |-> goalEvent,
     lookDuration |-> lookDuration, options |-> options,
     correctAnswer |-> correctAnswer]

\* goal task: completion is detected through the DOM event "x"
GoalTask == Task(Some("add-item"), "standard", "x", 0, None, None)
\* basic task: no goalEvent, the bar shows "Mark as done"
ManualTask == Task(None, "standard", "", 0, None, None)
\* recall task with a fixed choice set and an answer key
RecallOptions ==
    Task(Some("check-price"), "recall", "", 2000,
         Some(<< <<"A">>, <<"B">> >>), Some(<<"A">>))
\* recall task answered in free text, with an answer key
RecallText == Task(None, "recall", "", 1000, None, Some(<<"a", "B">>))
\* recall task with neither options, answer key nor lookDuration
RecallOpen == Task(None, "recall", "", 0, None, None)
\* recall task with a one-second look window and no answer key
RecallQuick == Task(Some("glance"), "recall", "", 1000, None, None)
\* recall task with a look window shorter than half a second
RecallBrief == Task(None, "recall", "", 400, None, None)

TaskLists ==
    { <<GoalTask, ManualTask>>,
      <<RecallQuick, ManualTask>>,
      <<RecallOptions>>,
      <<RecallText>>,
      <<RecallOpen>>,
      << >> }

\* the names a host page dispatches on the document
EventNames == {"x"}

\* values typed into the comment field of the skip modal
Comments == {"confusing", " confusing "}
\* values of a star group
Ratings == {4}
\* values typed into the comment fields of the goal and final modals
Remarks == {""}
\* values typed into the free-text recall field
FreeTexts == { <<" ", "A", "b", " ">>, <<"B">> }

(***************************************************************************)
(* _fmt(ms): a duration as text.                                           *)
(***************************************************************************)
\* a format that switches to minutes one second late
_fmt_LateMinutes(ms) ==
    LET sec == ms \div 1000
    IN  IF sec <= 60
        THEN ToString(sec) \o "s"
        ELSE ToString(sec \div 60) \o "m " \o ToString(sec % 60) \o "s"

_fmt(ms) ==
    LET sec == ms \div 1000
    IN  IF sec < 60
        THEN ToString(sec) \o "s"
        ELSE ToString(sec \div 60) \o "m " \o ToString(sec % 60) \o "s"

(***************************************************************************)
(* Configuration.  A config handed to init() names some of the options;    *)
(* an option is None when the config does not mention it.  init() merges   *)
(* the config into the defaults of _cfg.                                   *)
(***************************************************************************)
\* the defaults declared in _cfg
DefaultCfg ==
    [webhookUrl      |-> "",
     supabaseUrl     |-> "",
     supabaseAnonKey |-> "",
     allowSkip       |-> TRUE,
     downloadResults |-> TRUE]

\* a config that mentions no option
NoOptions ==
    [webhookUrl      |-> None,
     supabaseUrl     |-> None,
     supabaseAnonKey |-> None,
     allowSkip       |-> None,
     downloadResults |-> None]

\* Object.assign(PT._cfg, config): a mentioned option replaces the default
Assign(config, name) ==
    IF config[name] = None THEN DefaultCfg[name] ELSE config[name][1]

\* PT._cfg after init({tasks, ...config})
MergedCfg(tasks, config) ==
    [tasks           |-> tasks,
     webhookUrl      |-> Assign(config, "webhookUrl"),
     supabaseUrl     |-> Assign(config, "supabaseUrl"),
     supabaseAnonKey |-> Assign(config, "supabaseAnonKey"),
     allowSkip       |-> Assign(config, "allowSkip"),
     downloadResults |-> Assign(config, "downloadResults"),
     config          |-> config]

\* the configs of the sessions that name result sinks or allowSkip
SinkConfigs ==
    { NoOptions,
      [NoOptions EXCEPT !.supabaseUrl = Some("https://db"),
                        !.supabaseAnonKey = Some("key")],
      [NoOptions EXCEPT !.supabaseUrl = Some("https://db"),
                        !.supabaseAnonKey = Some("key"),
                        !.downloadResults = Some(TRUE)],
      [NoOptions EXCEPT !.supabaseUrl = Some("https://db"),
                        !.supabaseAnonKey = Some("key"),
                        !.webhookUrl = Some("https://hook"),
                        !.downloadResults = Some(FALSE)],
      [NoOptions EXCEPT !.supabaseUrl = Some("https://db"),
                        !.webhookUrl = Some("https://hook")],
      [NoOptions EXCEPT !.webhookUrl = Some("https://hook")],
      [NoOptions EXCEPT !.downloadResults = Some(FALSE)],
      [NoOptions EXCEPT !.allowSkip = Some(FALSE)] }

\* the task lists of those sessions
SinkTaskLists == { <<ManualTask>>, <<GoalTask>>, <<RecallText>> }

(***************************************************************************)
(* The controller state as one value, and the state after a handler.       *)
(***************************************************************************)
Cur ==
    [s |-> s, dom |-> dom, listeners |-> listeners, timers |-> timers,
     iv |-> iv, sent |-> sent, net |-> net]

Apply(st) ==
    /\ s' = st.s
    /\ dom' = st.dom
    /\ listeners' = st.listeners
    /\ timers' = st.timers
    /\ iv' = st.iv
    /\ sent' = st.sent
    /\ net' = st.net

\* PT._cfg.tasks[index], index counted from 0 as in the source
TaskAt(index) == cfg.tasks[index + 1]

\* no #_pt-back element in the document
NoModal == [kind |-> "none", task |-> 0, elapsed |-> 0]

\* no interval running
NoInterval == [on |-> FALSE, remaining |-> 0, due |-> 0]

\* PT._s as declared, with the fields init() sets
InitialS ==
    [sessionId    |-> "k3x9",
     sessionStart |-> 0,
     currentTask  |-> 0,
     taskStart    |-> None,
     clicks       |-> << >>,
     taskResults  |-> << >>,
     goalListener |-> None,
     recallIv     |-> FALSE,
     recallActive |-> FALSE,
     skipState    |-> FALSE,
     goalFired    |-> FALSE]

(***************************************************************************)
(* Modal helpers.                                                          *)
(***************************************************************************)
_closeModal(st) == [st EXCEPT !.dom.modal = NoModal]

\* _modal closes the modal shown, if any, and shows the new one
_modal(st, kind, task, elapsed) ==
    [_closeModal(st) EXCEPT
        !.dom.modal = [kind |-> kind, task |-> task, elapsed |-> elapsed]]

(***************************************************************************)
(* Goal listener.                                                          *)
(***************************************************************************)
\* removeEventListener called with another function than the one added:
\* the listener stays on the document
_clearGoalListener_KeepsListener(st) ==
    IF st.s.goalListener # None
    THEN [st EXCEPT !.s.goalListener = None]
    ELSE st

_clearGoalListener(st) ==
    IF st.s.goalListener # None
    THEN [st EXCEPT
            !.listeners = {l \in @ : ~(l.event = st.s.goalListener[1] /\ l.stored)},
            !.s.goalListener = None]
    ELSE st

\* a listener registered without { once: true }, without the goalFired
\* guard and without keeping it in PT._s.goalListener
addGoalListener_Unguarded(st, task) ==
    IF task.goalEvent # ""
    THEN [st EXCEPT
            !.listeners = @ \cup {[event |-> task.goalEvent, once |-> FALSE,
                                   guarded |-> FALSE, stored |-> FALSE]}]
    ELSE st

\* _startTask, "Register goal listener": fn checks goalFired, is registered
\* with { once: true } and kept in PT._s.goalListener
addGoalListener(st, task) ==
    IF task.goalEvent # ""
    THEN [st EXCEPT
            !.listeners = @ \cup {[event |-> task.goalEvent, once |-> TRUE,
                                   guarded |-> TRUE, stored |-> TRUE]},
            !.s.goalListener = Some(task.goalEvent)]
    ELSE st

(***************************************************************************)
(* Goal reached (auto or manual).                                          *)
(***************************************************************************)
\* Date.now() - (PT._s.taskStart || Date.now())
ElapsedOrZero(st) == IF st.s.taskStart = None THEN 0 ELSE now - st.s.taskStart[1]

_goalReached(st) ==
    LET st1 == _clearGoalListener([st EXCEPT !.s.goalFired = TRUE])
    IN  [st1 EXCEPT
            !.timers = Append(@, [due     |-> now + GoalDelayMs,
                                  task    |-> st.s.currentTask,
                                  elapsed |-> ElapsedOrZero(st)])]

(***************************************************************************)
(* Screens.                                                                *)
(***************************************************************************)
\* Math.round((task.lookDuration || 5000) / 1000)
LookSeconds(task) ==
    LET ms == IF task.lookDuration # 0 THEN task.lookDuration ELSE DefaultLookMs
    IN  (ms + 500) \div 1000

_startRecallTask(st, index, task) ==
    _modal([st EXCEPT !.dom.controls = FALSE], "recallIntro", index, 0)

_startTask(st, index) ==
    LET st1 == [st EXCEPT
                  !.s.currentTask  = index,
                  !.s.clicks       = << >>,
                  !.s.skipState    = FALSE,
                  !.s.goalFired    = FALSE,
                  !.s.taskStart    = None,
                  !.s.recallActive = FALSE,
                  !.s.recallIv     = FALSE,
                  !.iv             = NoInterval,
                  !.dom.controls   = TRUE,
                  !.dom.skipConfirm = FALSE]
    IN  IF index >= Len(cfg.tasks)
        THEN \* task is undefined: task.type throws and ends the handler
             st1
        ELSE LET task == TaskAt(index)
             IN  IF task.type = "recall"
                 THEN _startRecallTask(st1, index, task)
                 ELSE LET st2 == [st1 EXCEPT !.dom.doneVisible = (task.goalEvent = "")]
                          st3 == addGoalListener(_clearGoalListener(st2), task)
                      IN  _modal(st3, "intro", index, 0)

_showFinal(st) ==
    _modal([st EXCEPT !.dom.bar = FALSE], "final", 0, 0)

\* an advance rule that starts over at the first task after the last one
_advance_Restart(st) ==
    LET next == st.s.currentTask + 1
    IN  IF next < Len(cfg.tasks) THEN _startTask(st, next) ELSE _startTask(st, 0)

\* an advance rule that shows no final-feedback form after the last task
_advance_NoFinal(st) ==
    LET next == st.s.currentTask + 1
    IN  IF next < Len(cfg.tasks) THEN _startTask(st, next)
        ELSE [st EXCEPT !.dom.bar = FALSE]

_advance(st) ==
    LET next == st.s.currentTask + 1
    IN  IF next < Len(cfg.tasks) THEN _startTask(st, next) ELSE _showFinal(st)

\* task.id || `task_${PT._s.currentTask + 1}`
\* ([name |-> id, n |-> 0] for a configured id, [name |-> "task_", n |-> k] else)
TaskId(st, task) ==
    IF TaskAt(task).id # None
    THEN [name |-> TaskAt(task).id[1], n |-> 0]
    ELSE [name |-> "task_", n |-> st.s.currentTask + 1]

\* a record that puts the new entry before the existing ones
_record_Prepend(st, task, completed, elapsed, rating, comment) ==
    [st EXCEPT
        !.s.taskResults =
            << [task          |-> task,
                taskId        |-> TaskId(st, task),
                taskType      |-> "",
                completed     |-> completed,
                durationMs    |-> elapsed,
                easeRating    |-> Some(rating),
                comment       |-> comment,
                recallAnswer  |-> None,
                recallCorrect |-> "undefined",
                clicks        |-> st.s.clicks] >> \o @]

\* a record whose duration is measured when the result modal is confirmed
_record_AtConfirm(st, task, completed, elapsed, rating, comment) ==
    [st EXCEPT
        !.s.taskResults = Append(@,
            [task          |-> task,
             taskId        |-> TaskId(st, task),
             taskType      |-> "",
             completed     |-> completed,
             durationMs    |-> ElapsedOrZero(st),
             easeRating    |-> Some(rating),
             comment       |-> comment,
             recallAnswer  |-> None,
             recallCorrect |-> "undefined",
             clicks        |-> st.s.clicks])]

_record(st, task, completed, elapsed, rating, comment) ==
    [st EXCEPT
        !.s.taskResults = Append(@,
            [task          |-> task,
             taskId        |-> TaskId(st, task),
             taskType      |-> "",
             completed     |-> completed,
             durationMs    |-> elapsed,
             easeRating    |-> Some(rating),
             comment       |-> comment,
             recallAnswer  |-> None,
             recallCorrect |-> "undefined",
             clicks        |-> st.s.clicks])]

(***************************************************************************)
(* Recall task.                                                            *)
(***************************************************************************)
_runRecallCountdown(st, seconds) ==
    [st EXCEPT
        !.s.recallActive = TRUE,
        !.s.recallIv     = TRUE,
        !.iv = [on |-> TRUE, remaining |-> seconds, due |-> now + IntervalMs]]

\* elapsed = Date.now() - PT._s.taskStart, where null counts as 0
_showRecallQuestion(st) ==
    _modal(st, "recallQ", st.s.currentTask,
           now - (IF st.s.taskStart = None THEN 0 ELSE st.s.taskStart[1]))

\* the comparison without toLowerCase()
recallCorrect_CaseSensitive(task, answer) ==
    IF task.correctAnswer # None
    THEN (IF answer = task.correctAnswer[1] THEN "true" ELSE "false")
    ELSE "null"

\* _finishRecall: hasKey ? answer.toLowerCase() ===
\*   String(task.correctAnswer).toLowerCase() : null
recallCorrect(task, answer) ==
    IF task.correctAnswer # None
    THEN (IF toLowerCase(answer) = toLowerCase(task.correctAnswer[1])
          THEN "true" ELSE "false")
    ELSE "null"

\* a variant that shows the feedback modal whether or not the task has an
\* answer key
_finishRecall_AlwaysFeedback(st, task, elapsed, answer) ==
    _modal([st EXCEPT
              !.s.taskResults = Append(@,
                  [task          |-> task,
                   taskId        |-> TaskId(st, task),
                   taskType      |-> "recall",
                   completed     |-> TRUE,
                   durationMs    |-> elapsed,
                   easeRating    |-> None,
                   comment       |-> "",
                   recallAnswer  |-> Some(answer),
                   recallCorrect |-> recallCorrect(TaskAt(task), answer),
                   clicks        |-> st.s.clicks]),
              !.dom.controls = TRUE],
           "recallFb", task, 0)

_finishRecall(st, task, elapsed, answer) ==
    LET st1 == [st EXCEPT
                  !.s.taskResults = Append(@,
                      [task          |-> task,
                       taskId        |-> TaskId(st, task),
                       taskType      |-> "recall",
                       completed     |-> TRUE,
                       durationMs    |-> elapsed,
                       easeRating    |-> None,
                       comment       |-> "",
                       recallAnswer  |-> Some(answer),
                       recallCorrect |-> recallCorrect(TaskAt(task), answer),
                       clicks        |-> st.s.clicks]),
                  !.dom.controls = TRUE]
    IN  IF TaskAt(task).correctAnswer # None
        THEN _modal(st1, "recallFb", task, 0)
        ELSE _advance(_closeModal(st1))

(***************************************************************************)
(* Skip.                                                                   *)
(***************************************************************************)
_doSkip(st) ==
    IF st.s.currentTask >= Len(cfg.tasks)
    THEN \* task is undefined: task.title throws before _modal is called
         _clearGoalListener(st)
    ELSE _modal(_clearGoalListener(st), "skip", st.s.currentTask,
                ElapsedOrZero(st))

(***************************************************************************)
(* Submit.                                                                 *)
(***************************************************************************)
\* a count of all results, completed or not
CountCompleted_All(results) == Len(results)

\* PT._s.taskResults.filter(t => t.completed).length
RECURSIVE CountCompleted(_)
CountCompleted(results) ==
    IF results = << >> THEN 0
    ELSE (IF Head(results).completed THEN 1 ELSE 0) + CountCompleted(Tail(results))

\* the Supabase sink: one POST of the flattened row, if URL and key are set
supabaseWrite(st, k) ==
    IF cfg.supabaseUrl # "" /\ cfg.supabaseAnonKey # ""
    THEN [st EXCEPT !.net.fetches =
             Append(@, [sink |-> "supabase", payload |-> k])]
    ELSE st

\* a webhook sink that is skipped when the Supabase sink has fired
webhookWrite_UnlessSupabase(st, k) ==
    IF cfg.webhookUrl # "" /\ ~(cfg.supabaseUrl # "" /\ cfg.supabaseAnonKey # "")
    THEN [st EXCEPT !.net.fetches =
             Append(@, [sink |-> "webhook", payload |-> k])]
    ELSE st

\* the webhook sink: one POST of the payload, if the URL is set
webhookWrite(st, k) ==
    IF cfg.webhookUrl # ""
    THEN [st EXCEPT !.net.fetches =
             Append(@, [sink |-> "webhook", payload |-> k])]
    ELSE st

\* PT._cfg.downloadResults === true ||
\*   (PT._cfg.downloadResults !== false && !PT._cfg.supabaseUrl)
shouldDownload ==
    \/ cfg.downloadResults = TRUE
    \/ (cfg.downloadResults # FALSE /\ cfg.supabaseUrl = "")

\* the JSON download: the file pt-session-<sessionId>.json
download(st, k) ==
    IF shouldDownload
    THEN [st EXCEPT !.net.downloads =
             Append(@, [file    |-> <<"pt-session-", st.sent[k].sessionId, ".json">>,
                        payload |-> k])]
    ELSE st

_submit(st, overallRating, overallComment) ==
    LET payload ==
            [sessionId          |-> st.s.sessionId,
             sessionDurationMs  |-> now - st.s.sessionStart,
             sessionDurationFmt |-> _fmt(now - st.s.sessionStart),
             overallRating      |-> overallRating,
             overallComment     |-> overallComment,
             completedTasks     |-> CountCompleted(st.s.taskResults),
             totalTasks         |-> Len(cfg.tasks),
             tasks              |-> st.s.taskResults]
        k  == Len(st.sent) + 1
        st1 == [st EXCEPT !.sent = Append(@, payload)]
    IN  _modal(download(webhookWrite(supabaseWrite(st1, k), k), k),
               "thanks", 0, 0)

\* the sequence without its i-th element
RemoveAt(seq, i) == SubSeq(seq, 1, i - 1) \o SubSeq(seq, i + 1, Len(seq))

\* the promise of a network write is fulfilled: no handler is attached,
\* the write is no longer in flight
fetchThen(st, i) == [st EXCEPT !.net.fetches = RemoveAt(@, i)]

\* a rejection handler that issues the failed write again
fetchCatch_Retry(st, i) ==
    [st EXCEPT !.net.fetches = Append(RemoveAt(@, i), @[i])]

\* the promise is rejected: .catch(e => console.warn(...)) logs the error
\* and returns, the write is no longer in flight
fetchCatch(st, i) == [st EXCEPT !.net.fetches = RemoveAt(@, i)]

(***************************************************************************)
(* Click tracking: the capturing click listener of the document runs       *)
(* before the handler of the element clicked.  target is "bar" or "back"   *)
(* for a click inside #_pt-bar or #_pt-back, "page" for the host page.     *)
(***************************************************************************)
\* a click recorder that does not ignore the clicks inside the overlay
_trackClicks_AnyTarget(st, target) ==
    IF st.s.taskStart = None THEN st
    ELSE [st EXCEPT !.s.clicks = Append(@, [t |-> now - st.s.taskStart[1]])]

_trackClicks(st, target) ==
    IF target \in {"bar", "back"} THEN st
    ELSE IF st.s.taskStart = None THEN st
    ELSE [st EXCEPT !.s.clicks = Append(@, [t |-> now - st.s.taskStart[1]])]

(***************************************************************************)
(* init(config): the state after construction.  _buildShell creates the    *)
(* bar hidden, _showWelcome shows the welcome modal.                       *)
(***************************************************************************)
InitialState ==
    /\ s = InitialS
    /\ dom = [modal       |-> [NoModal EXCEPT !.kind = "welcome"],
              bar         |-> FALSE,
              controls    |-> TRUE,
              skipConfirm |-> FALSE,
              doneVisible |-> FALSE]
    /\ listeners = {}
    /\ timers = << >>
    /\ iv = NoInterval
    /\ sent = << >>
    /\ net = [fetches |-> << >>, downloads |-> << >>]
    /\ now = 0

Init ==
    /\ cfg \in {MergedCfg(tasks, NoOptions) : tasks \in TaskLists}
    /\ InitialState

(***************************************************************************)
(* Time.  The clock advances in steps of one interval period while no      *)
(* timer is pending, and to the next due time otherwise; a pending timer   *)
(* fires before the clock passes its due time.                             *)
(***************************************************************************)
\* the ticks the countdown of a recall task takes: the interval callback
\* runs at least once
LookTicks(task) == IF LookSeconds(task) > 1 THEN LookSeconds(task) ELSE 1

\* the time a session needs: the ticks of the countdown per recall task, a
\* goal delay per standard task
RECURSIVE TimeNeeded(_)
TimeNeeded(tasks) ==
    IF tasks = << >> THEN 0
    ELSE (IF Head(tasks).type = "recall"
          THEN LookTicks(Head(tasks)) * IntervalMs
          ELSE GoalDelayMs)
         + TimeNeeded(Tail(tasks))

Horizon == TimeNeeded(cfg.tasks) + MaxSeconds * IntervalMs

DueTimes ==
    (IF timers # << >> THEN {Head(timers).due} ELSE {})
    \cup (IF iv.on THEN {iv.due} ELSE {})

TickMs ==
    IF DueTimes = {} THEN IntervalMs
    ELSE LET next == CHOOSE d \in DueTimes : \A e \in DueTimes : d <= e
         IN  IF next - now < IntervalMs THEN next - now ELSE IntervalMs

Tick ==
    /\ TickMs > 0
    /\ now + TickMs <= Horizon
    /\ now' = now + TickMs
    /\ UNCHANGED <<cfg, s, dom, listeners, timers, iv, sent, net>>

(***************************************************************************)
(* The tester's clicks on the overlay.  The bar (z-index 2147483646) lies  *)
(* above the modal backdrop (z-index 2147483645): its buttons take clicks  *)
(* whenever the bar and the button are displayed, modal or not.            *)
(***************************************************************************)
\* _showWelcome, #_pt-start-btn
StartTesting ==
    /\ dom.modal.kind = "welcome"
    /\ LET st == _closeModal(_trackClicks(Cur, "back"))
       IN  Apply(_startTask([st EXCEPT !.dom.bar = TRUE], 0))
    /\ UNCHANGED <<cfg, now>>

\* _startTask, #_pt-go-btn
IntroGo ==
    /\ dom.modal.kind = "intro"
    /\ LET st == _trackClicks(Cur, "back")
       IN  Apply(_closeModal([st EXCEPT !.s.taskStart = Some(now)]))
    /\ UNCHANGED <<cfg, now>>

\* _startRecallTask, #_pt-recall-go
RecallGo ==
    /\ dom.modal.kind = "recallIntro"
    /\ LET st == _trackClicks(Cur, "back")
           st1 == _closeModal([st EXCEPT !.s.taskStart = Some(now)])
       IN  Apply(_runRecallCountdown(st1, LookSeconds(TaskAt(dom.modal.task))))
    /\ UNCHANGED <<cfg, now>>

\* _buildShell, #_pt-done-btn: displayed with class "visible" inside #_pt-controls
ClickDone ==
    /\ dom.bar /\ dom.controls /\ dom.doneVisible
    /\ Len(timers) < MaxTimers
    /\ Apply(_goalReached(_trackClicks(Cur, "bar")))
    /\ UNCHANGED <<cfg, now>>

\* _buildShell, #_pt-skip-btn
ClickSkip ==
    /\ dom.bar /\ dom.controls
    /\ LET st == _trackClicks(Cur, "bar")
       IN  Apply([st EXCEPT !.s.skipState = TRUE,
                            !.dom.controls = FALSE,
                            !.dom.skipConfirm = TRUE])
    /\ UNCHANGED <<cfg, now>>

\* a cancel handler that also empties the click trail
ClickSkipNo_ClearsTrail ==
    /\ dom.bar /\ dom.skipConfirm
    /\ LET st == _trackClicks(Cur, "bar")
       IN  Apply([st EXCEPT !.s.skipState = FALSE,
                            !.s.clicks = << >>,
                            !.dom.controls = TRUE,
                            !.dom.skipConfirm = FALSE])
    /\ UNCHANGED <<cfg, now>>

\* _buildShell, #_pt-skip-no
ClickSkipNo ==
    /\ dom.bar /\ dom.skipConfirm
    /\ LET st == _trackClicks(Cur, "bar")
       IN  Apply([st EXCEPT !.s.skipState = FALSE,
                            !.dom.controls = TRUE,
                            !.dom.skipConfirm = FALSE])
    /\ UNCHANGED <<cfg, now>>

\* _buildShell, #_pt-skip-yes
ClickSkipYes ==
    /\ dom.bar /\ dom.skipConfirm
    /\ Apply(_doSkip(_trackClicks(Cur, "bar")))
    /\ UNCHANGED <<cfg, now>>

\* the bound on the results explored applies once the session has been
\* submitted; before that the horizon of the clock bounds the goal modals
ResultsBelowBound ==
    sent # << >> => Len(s.taskResults) < Len(cfg.tasks) + MaxExtraResults

\* _goalReached, #_pt-success-next; rating is the star last clicked (0 if none)
GoalNext(rating, comment) ==
    /\ dom.modal.kind = "goal"
    /\ ResultsBelowBound
    /\ LET m  == dom.modal
           st == _trackClicks(Cur, "back")
       IN  Apply(_advance(_closeModal(
                 _record(st, m.task, TRUE, m.elapsed, rating, trimText(comment)))))
    /\ UNCHANGED <<cfg, now>>

\* _doSkip, #_pt-skip-next-btn
SkipNext(comment) ==
    /\ dom.modal.kind = "skip"
    /\ ResultsBelowBound
    /\ LET m  == dom.modal
           st == _trackClicks(Cur, "back")
       IN  Apply(_advance(_closeModal(
                 _record(st, m.task, FALSE, m.elapsed, 0, trimText(comment)))))
    /\ UNCHANGED <<cfg, now>>

\* the answers the question modal can hand to _finishRecall: the option
\* chosen ('' if none) or the trimmed text of the free-text field
RecallAnswers(task) ==
    IF task.options # None
    THEN {<< >>} \cup {task.options[1][i] : i \in 1..Len(task.options[1])}
    ELSE {trim(txt) : txt \in FreeTexts}

\* _showRecallQuestion, #_pt-recall-submit
RecallSubmit(answer) ==
    /\ dom.modal.kind = "recallQ"
    /\ ResultsBelowBound
    /\ answer \in RecallAnswers(TaskAt(dom.modal.task))
    /\ LET m  == dom.modal
           st == _trackClicks(Cur, "back")
       IN  Apply(_finishRecall(st, m.task, m.elapsed, answer))
    /\ UNCHANGED <<cfg, now>>

\* _finishRecall, #_pt-recall-next
RecallNext ==
    /\ dom.modal.kind = "recallFb"
    /\ Apply(_advance(_closeModal(_trackClicks(Cur, "back"))))
    /\ UNCHANGED <<cfg, now>>

\* _showFinal, #_pt-submit-btn
SubmitFinal(overall, comment) ==
    /\ dom.modal.kind = "final"
    /\ Apply(_submit(_trackClicks(Cur, "back"), overall, trimText(comment)))
    /\ UNCHANGED <<cfg, now>>

\* a click on the host page: the backdrop covers the page while a modal is shown
HostClick ==
    /\ dom.modal.kind = "none"
    /\ s.taskStart # None
    /\ Len(s.clicks) < MaxClicks
    /\ Apply(_trackClicks(Cur, "page"))
    /\ UNCHANGED <<cfg, now>>

(***************************************************************************)
(* The host prototype's signals.                                           *)
(***************************************************************************)
\* document.dispatchEvent(new CustomEvent(e))
DispatchEvent(e) ==
    LET hit  == {l \in listeners : l.event = e}
        st   == [Cur EXCEPT !.listeners = @ \ {l \in hit : l.once}]
        runs == \E l \in hit : ~l.guarded \/ ~s.goalFired
    IN  IF runs
        THEN /\ Len(timers) < MaxTimers
             /\ Apply(_goalReached(st))
             /\ UNCHANGED <<cfg, now>>
        ELSE /\ Apply(st)
             /\ UNCHANGED <<cfg, now>>

\* an entry point that triggers the goal whatever the state
taskCompleted_Unguarded ==
    /\ Len(timers) < MaxTimers
    /\ Apply(_goalReached(Cur))
    /\ UNCHANGED <<cfg, now>>

\* PrototypeTester.taskCompleted()
taskCompleted ==
    IF s.taskStart # None /\ ~s.goalFired
    THEN /\ Len(timers) < MaxTimers
         /\ Apply(_goalReached(Cur))
         /\ UNCHANGED <<cfg, now>>
    ELSE UNCHANGED vars

(***************************************************************************)
(* Timer callbacks.                                                        *)
(***************************************************************************)
\* the setTimeout callback of _goalReached
GoalTimerFire ==
    /\ timers # << >>
    /\ Head(timers).due <= now
    /\ LET tm == Head(timers)
       IN  Apply(_modal([Cur EXCEPT !.timers = Tail(@)],
                        "goal", tm.task, tm.elapsed))
    /\ UNCHANGED <<cfg, now>>

\* the setInterval callback of _runRecallCountdown
RecallTick ==
    /\ iv.on
    /\ iv.due <= now
    /\ LET remaining == iv.remaining - 1
       IN  IF remaining <= 0
           THEN Apply(_showRecallQuestion(
                    [Cur EXCEPT !.iv = NoInterval,
                                !.s.recallIv = FALSE,
                                !.s.recallActive = FALSE]))
           ELSE Apply([Cur EXCEPT !.iv.remaining = remaining,
                                  !.iv.due = @ + IntervalMs])
    /\ UNCHANGED <<cfg, now>>

Next ==
    \/ \E e \in EventNames : DispatchEvent(e)
    \/ taskCompleted
    \/ Tick
    \/ StartTesting
    \/ IntroGo
    \/ RecallGo
    \/ ClickDone
    \/ ClickSkip
    \/ ClickSkipNo
    \/ ClickSkipYes
    \/ \E rating \in Ratings, comment \in Remarks : GoalNext(rating, comment)
    \/ \E comment \in Comments : SkipNext(comment)
    \/ \E answer \in UNION {RecallAnswers(t) : t \in {RecallOptions, RecallText, RecallOpen, RecallQuick}} :
          RecallSubmit(answer)
    \/ RecallNext
    \/ \E overall \in Ratings, comment \in Remarks : SubmitFinal(overall, comment)
    \/ HostClick
    \/ GoalTimerFire
    \/ RecallTick

Spec == Init /\ [][Next]_vars

(***************************************************************************)
(* Sessions with result sinks configured: the network answers, or never    *)
(* does.                                                                   *)
(***************************************************************************)
\* a write is answered with success
FetchResolves ==
    \E i \in 1..Len(net.fetches) :
        /\ Apply(fetchThen(Cur, i))
        /\ UNCHANGED <<cfg, now>>

\* a write fails (network error, blocked request)
FetchRejects ==
    \E i \in 1..Len(net.fetches) :
        /\ Apply(fetchCatch(Cur, i))
        /\ UNCHANGED <<cfg, now>>

SinkInit ==
    /\ cfg \in {MergedCfg(tasks, config) : tasks \in SinkTaskLists, config \in SinkConfigs}
    /\ InitialState

SinkNext ==
    \/ Next
    \/ FetchResolves
    \/ FetchRejects

SinkSpec == SinkInit /\ [][SinkNext]_vars

(***************************************************************************)
(* Properties.                                                             *)
(***************************************************************************)
\* the task of a TaskResult, a modal or a timer is one of the configured tasks
IsTask(index) == index \in 0..(Len(cfg.tasks) - 1)

\* the current task is a standard task that declares no goalEvent
CurrentIsManual ==
    /\ IsTask(s.currentTask)
    /\ TaskAt(s.currentTask).type # "recall"
    /\ TaskAt(s.currentTask).goalEvent = ""

\* the current task is a standard task that declares a goalEvent
CurrentIsGoal ==
    /\ IsTask(s.currentTask)
    /\ TaskAt(s.currentTask).type # "recall"
    /\ TaskAt(s.currentTask).goalEvent # ""

\* the entries of results recorded for the task at index
ResultsOf(results, index) == {j \in 1..Len(results) : results[j].task = index}

\* C1: every payload built holds exactly one TaskResult per configured
\* task, so that completed + skipped entries = totalTasks = Len(cfg.tasks).
C1_OneResultPerTask ==
    \A i \in 1..Len(sent) :
        /\ sent[i].totalTasks = Len(cfg.tasks)
        /\ Len(sent[i].tasks) = sent[i].totalTasks
        /\ \A k \in 0..(Len(cfg.tasks) - 1) :
              Cardinality(ResultsOf(sent[i].tasks, k)) = 1

\* C2: _submit runs at most once per page load.
C2_SubmitAtMostOnce == Len(sent) <= 1

\* C3: once the thank-you screen is shown, no step changes currentTask,
\* taskResults or the modal displayed.
C3_SubmittedIsTerminal ==
    [][dom.modal.kind = "thanks" =>
          /\ s'.currentTask = s.currentTask
          /\ s'.taskResults = s.taskResults
          /\ dom'.modal = dom.modal]_vars

\* C4: dispatching a goal event leaves no listener for it on the document,
\* and once the goal of the current goal-event task has fired, dispatching
\* the event again changes nothing: no second goal modal is scheduled and
\* no second TaskResult can come of it.
C4_GoalEventIdempotent ==
    [][\A e \in EventNames :
          /\ DispatchEvent(e) => {l \in listeners' : l.event = e} = {}
          /\ (s.goalFired /\ CurrentIsGoal /\ DispatchEvent(e)) => UNCHANGED vars]_vars

\* C4 witness: the goal of a goal-event task has fired, its listener is
\* gone and its goal modal is open while the task is still current.
C4_Witness ==
    /\ CurrentIsGoal
    /\ s.goalFired
    /\ listeners = {}
    /\ dom.modal.kind = "goal"
    /\ dom.modal.task = s.currentTask

\* C5: within one task the goal trigger takes effect at most once: after
\* goalFired is set, no step of the same task schedules another goal modal.
C5_GoalTriggerOnce ==
    [][(s.goalFired /\ s'.goalFired /\ s'.currentTask = s.currentTask) =>
          Len(timers') <= Len(timers)]_vars

\* C6: a goal event dispatched while the intro of the task is showing and
\* taskStart is unset is ignored: it schedules no goal modal.
C6_EarlyGoalEventIgnored ==
    [][\A e \in EventNames :
          (s.taskStart = None /\ dom.modal.kind = "intro" /\ DispatchEvent(e)) =>
              (timers' = timers /\ ~s'.goalFired)]_vars

C8_RecallNeverFailed ==
    \A j \in 1..Len(s.taskResults) :
        TaskAt(s.taskResults[j].task).type = "recall" => s.taskResults[j].completed

\* two characters are the same letter, whatever their case
SameLetter(c, d) == c = d \/ {c, d} \in {{"a", "A"}, {"b", "B"}}

\* two strings are equal ignoring letter case
EqualIgnoringCase(a, b) ==
    /\ Len(a) = Len(b)
    /\ \A i \in 1..Len(a) : SameLetter(a[i], b[i])

\* C9: in every TaskResult appended by _finishRecall, recallCorrect is
\* true iff the submitted answer equals the configured correctAnswer
\* ignoring letter case, false otherwise, and null without a correctAnswer.
C9_RecallCorrect ==
    \A j \in 1..Len(s.taskResults) :
        LET r   == s.taskResults[j]
            key == TaskAt(r.task).correctAnswer
        IN  r.taskType = "recall" =>
                r.recallCorrect =
                    (IF key = None THEN "null"
                     ELSE IF EqualIgnoringCase(r.recallAnswer[1], key[1]) THEN "true"
                     ELSE "false")

\* C9 witness: an answer that differs from the key in letter case only was
\* recorded as correct, a wrong one as incorrect, or one without key as null.
C9_Witness ==
    \E j \in 1..Len(s.taskResults) :
        LET r == s.taskResults[j]
        IN  /\ r.taskType = "recall"
            /\ r.recallCorrect = "true"
            /\ TaskAt(r.task).correctAnswer # None
            /\ r.recallAnswer[1] # TaskAt(r.task).correctAnswer[1]

\* C10: every click stored in a TaskResult has an offset t with
\* 0 <= t < durationMs of that TaskResult.
C10_ClicksWithinDuration ==
    \A j \in 1..Len(s.taskResults) :
        LET r == s.taskResults[j]
        IN  \A k \in 1..Len(r.clicks) :
                0 <= r.clicks[k].t /\ r.clicks[k].t < r.durationMs

(***************************************************************************)
(* Sessions in which the tester leaves the final-feedback form open for a  *)
(* while before submitting: session durations of a minute and more.        *)
(***************************************************************************)
IdleTimes == {k * 3750 : k \in 1..MaxIdleSteps}

FmtTaskLists == { <<ManualTask>>, <<GoalTask>>, <<RecallText>> }

\* time passes on the final-feedback form while no timer is pending
Idle(d) ==
    /\ dom.modal.kind = "final"
    /\ DueTimes = {}
    /\ now <= Horizon
    /\ now' = now + d
    /\ UNCHANGED <<cfg, s, dom, listeners, timers, iv, sent, net>>

FmtInit ==
    /\ cfg \in {MergedCfg(tasks, NoOptions) : tasks \in FmtTaskLists}
    /\ InitialState

FmtNext ==
    \/ Next
    \/ \E d \in IdleTimes : Idle(d)

FmtSpec == FmtInit /\ [][FmtNext]_vars

(***************************************************************************)
(* Sessions up to their submission, with a tester who answers every modal  *)
(* and ends every task, and timers that fire.  Time also passes to the     *)
(* next due timer beyond the horizon of Tick; a goal trigger is explored   *)
(* while its delay ends within that horizon, which bounds the clock by     *)
(* Horizon plus the look windows.                                          *)
(***************************************************************************)
LiveTaskLists == { <<GoalTask, ManualTask>>, <<RecallText>> }

\* time passes until the next pending timer is due
TimerDue ==
    /\ DueTimes # {}
    /\ \A d \in DueTimes : now < d
    /\ now' = CHOOSE d \in DueTimes : \A e \in DueTimes : d <= e
    /\ UNCHANGED <<cfg, s, dom, listeners, timers, iv, sent, net>>

\* the session has been submitted
Submitted == sent # << >>

\* a step that schedules a goal modal does so while its delay ends within
\* the horizon
TriggerWithinHorizon ==
    Len(timers') > Len(timers) => now + GoalDelayMs <= Horizon

\* the tester answers the modal shown
AnswerModal ==
    \/ StartTesting
    \/ IntroGo
    \/ RecallGo
    \/ \E rating \in Ratings, comment \in Remarks : GoalNext(rating, comment)
    \/ \E comment \in Comments : SkipNext(comment)
    \/ \E answer \in UNION {RecallAnswers(t) : t \in {RecallOptions, RecallText, RecallOpen, RecallQuick}} :
          RecallSubmit(answer)
    \/ RecallNext
    \/ \E overall \in Ratings, comment \in Remarks : SubmitFinal(overall, comment)

\* the tester uses the bar: done, skip, or the answer to the skip confirmation
UseBar == ClickDone \/ ClickSkip \/ ClickSkipYes \/ ClickSkipNo

\* the tester ends the task: done, or skip confirmed
EndTask == ClickDone \/ ClickSkipYes

\* a pending timer becomes due and its callback runs
TimerRuns == TimerDue \/ GoalTimerFire \/ RecallTick

LiveInit ==
    /\ cfg \in {MergedCfg(tasks, NoOptions) : tasks \in LiveTaskLists}
    /\ InitialState

LiveNext ==
    /\ ~Submitted
    /\ \/ Next
       \/ TimerDue
    /\ TriggerWithinHorizon

LiveSpec ==
    /\ LiveInit
    /\ [][LiveNext]_vars
    /\ WF_vars(~Submitted /\ AnswerModal)
    /\ WF_vars(~Submitted /\ TimerRuns)
    /\ WF_vars(~Submitted /\ UseBar /\ TriggerWithinHorizon)
    /\ SF_vars(~Submitted /\ EndTask /\ TriggerWithinHorizon)

(***************************************************************************)
(* Result sinks and configuration.                                         *)
(***************************************************************************)
\* the config handed to init() sets the option to a usable (truthy) value
Configured(name) == cfg.config[name] # None /\ cfg.config[name][1] # ""

\* payload k was saved as the local file pt-session-<sessionId>.json
Downloaded(k) ==
    \E j \in 1..Len(net.downloads) :
        /\ net.downloads[j].payload = k
        /\ net.downloads[j].file = <<"pt-session-", sent[k].sessionId, ".json">>

\* the writes of payload k to a sink among the writes in flight
Writes(fetches, sink, k) ==
    {i \in 1..Len(fetches) : fetches[i].sink = sink /\ fetches[i].payload = k}

\* C11: a submission produces the local file iff downloadResults says so
\* when the config mentions it, and otherwise iff no database URL is
\* configured.
C11_DownloadDefault ==
    \A k \in 1..Len(sent) :
        Downloaded(k) <=>
            (IF cfg.config.downloadResults # None
             THEN cfg.config.downloadResults[1]
             ELSE ~Configured("supabaseUrl"))

\* C12: the step that builds payload k issues exactly one database write
\* iff URL and anon key are configured and exactly one webhook write iff
\* webhookUrl is configured, each whatever the other sink's configuration;
\* no other step issues a write.
C12_SinksIndependent ==
    [][IF Len(sent') = Len(sent) + 1
       THEN LET k == Len(sent')
            IN  /\ Cardinality(Writes(net'.fetches, "supabase", k)) =
                       (IF Configured("supabaseUrl") /\ Configured("supabaseAnonKey")
                        THEN 1 ELSE 0)
                /\ Cardinality(Writes(net'.fetches, "webhook", k)) =
                       (IF Configured("webhookUrl") THEN 1 ELSE 0)
                /\ Len(net'.fetches) =
                       Len(net.fetches)
                       + Cardinality(Writes(net'.fetches, "supabase", k))
                       + Cardinality(Writes(net'.fetches, "webhook", k))
       ELSE Len(net'.fetches) <= Len(net.fetches)]_vars

\* C12 witness: one submission with both sinks configured has its database
\* write and its webhook write in flight.
C12_Witness ==
    /\ Len(sent) = 1
    /\ Writes(net.fetches, "supabase", 1) # {}
    /\ Writes(net.fetches, "webhook", 1) # {}

\* C13: the step that builds a payload shows the thank-you screen, and the
\* answer to a write, success or failure, changes nothing of the
\* controller and issues no new write.
C13_SinkOutcomeIgnored ==
    [][/\ Len(sent') > Len(sent) => dom'.modal.kind = "thanks"
       /\ (FetchResolves \/ FetchRejects) =>
              /\ UNCHANGED <<cfg, s, dom, listeners, timers, iv, sent, now>>
              /\ net'.downloads = net.downloads
              /\ Len(net'.fetches) < Len(net.fetches)]_vars

\* C13 witness: the thank-you screen of the only submission is shown, with
\* a sink configured, after its writes were answered or while one of two
\* is still unanswered.
C13_Witness ==
    /\ dom.modal.kind = "thanks"
    /\ Len(sent) = 1
    /\ Configured("webhookUrl")
    /\ Configured("supabaseAnonKey")
    /\ Len(net.fetches) = 1

\* C14: with allowSkip = false the skip confirmation and the skip modal
\* are never shown and no TaskResult has completed = false.
C14_AllowSkipHonoured ==
    ~cfg.allowSkip =>
        /\ ~dom.skipConfirm
        /\ dom.modal.kind # "skip"
        /\ \A j \in 1..Len(s.taskResults) : s.taskResults[j].completed

(***************************************************************************)
(* Durations, payload counts, the public entry point, the goal delay and   *)
(* the advance rule.                                                       *)
(***************************************************************************)
\* the text the format rule gives for a duration of ms milliseconds
FormatRule(ms) ==
    IF ms < 60000
    THEN ToString(ms \div 1000) \o "s"
    ELSE ToString(ms \div 60000) \o "m " \o ToString((ms \div 1000) % 60) \o "s"

\* C15: 45000 ms is formatted "45s" and 125000 ms "2m 5s", and the step
\* that builds a payload sets sessionDurationFmt to the format rule's text
\* for (time of submission - sessionStart).
C15_DurationFormat ==
    [][/\ _fmt(45000) = "45s"
       /\ _fmt(125000) = "2m 5s"
       /\ Len(sent') = Len(sent) + 1 =>
              sent'[Len(sent')].sessionDurationFmt = FormatRule(now' - s.sessionStart)]_vars

\* C15 witness: the payload of a session of exactly one minute.
C15_Witness ==
    \E k \in 1..Len(sent) :
        /\ sent[k].sessionDurationMs = 60000
        /\ sent[k].sessionDurationFmt = "1m 0s"

\* C16: in every payload completedTasks is the number of its entries with
\* completed = true and totalTasks the length of the configured task list.
C16_PayloadCounts ==
    \A k \in 1..Len(sent) :
        /\ sent[k].completedTasks =
               Cardinality({j \in 1..Len(sent[k].tasks) : sent[k].tasks[j].completed})
        /\ sent[k].totalTasks = Len(cfg.tasks)

\* C16 witness: a payload with a completed and a skipped task.
C16_Witness ==
    \E k \in 1..Len(sent) :
        /\ \E j \in 1..Len(sent[k].tasks) : sent[k].tasks[j].completed
        /\ \E j \in 1..Len(sent[k].tasks) : ~sent[k].tasks[j].completed
        /\ sent[k].completedTasks < Len(sent[k].tasks)

\* C17: a taskCompleted() call made while taskStart is unset or goalFired
\* is set changes nothing.
C17_TaskCompletedGuard ==
    [][((s.taskStart = None \/ s.goalFired) /\ taskCompleted) => UNCHANGED vars]_vars

\* C17 witness: the intro of the second task is showing after the first
\* task was completed: the clock is unset again and a goal listener or the
\* done button is ready.
C17_Witness ==
    /\ dom.modal.kind = "intro"
    /\ s.currentTask = 1
    /\ s.taskStart = None
    /\ Len(s.taskResults) = 1
    /\ s.taskResults[1].completed

\* C18: the delayed goal modal of a task opens only while that task is
\* current, and never over the final-feedback form or the thank-you
\* screen.
C18_NoStaleGoalModal ==
    [][GoalTimerFire =>
          /\ Head(timers).task = s.currentTask
          /\ dom.modal.kind \notin {"final", "thanks"}]_vars

\* a modal that ends task dom.modal.task is confirmed
ConfirmsEnd ==
    \/ \E rating \in Ratings, comment \in Remarks : GoalNext(rating, comment)
    \/ \E comment \in Comments : SkipNext(comment)
    \/ RecallNext
    \/ /\ dom.modal.kind = "recallQ"
       /\ TaskAt(dom.modal.task).correctAnswer = None
       /\ \E answer \in RecallAnswers(TaskAt(dom.modal.task)) : RecallSubmit(answer)

\* C19: confirming the modal that ends task i shows the intro of task i+1
\* when there is one and the final-feedback form otherwise, and the form
\* is shown only when the last configured task has a TaskResult.
C19_AdvanceRule ==
    [][/\ ConfirmsEnd =>
              LET i == dom.modal.task
              IN  IF i + 1 < Len(cfg.tasks)
                  THEN /\ dom'.modal.kind \in {"intro", "recallIntro"}
                       /\ dom'.modal.task = i + 1
                       /\ s'.currentTask = i + 1
                  ELSE dom'.modal.kind = "final"
       /\ dom'.modal.kind = "final" =>
              ResultsOf(s'.taskResults, Len(cfg.tasks) - 1) # {}]_vars

\* C20: every session with a non-empty task list is eventually submitted,
\* and before that some tester action is enabled or a timer is pending.
C20_EventuallySubmitted ==
    /\ <>Submitted
    /\ [](~Submitted => (ENABLED AnswerModal \/ ENABLED UseBar \/ DueTimes # {}))

\* C20 witness: a submitted session whose tasks were all ended.
C20_Witness ==
    /\ Submitted
    /\ dom.modal.kind = "thanks"
    /\ \A k \in 0..(Len(cfg.tasks) - 1) : ResultsOf(sent[1].tasks, k) # {}

\* the clock stays within the horizon plus the look windows
ClockBounded == now <= Horizon + TimeNeeded(cfg.tasks)

(***************************************************************************)
(* The sequencer's states, the goal listener, and the bar's controls while *)
(* a modal is shown.                                                       *)
(***************************************************************************)
\* the controller is in a state of the sequencer: a modal is shown
\* (welcome, an intro, a question, a result modal, the final form, the
\* thank-you screen), or a task is active with its clock running
InSequencerState ==
    \/ dom.modal.kind # "none"
    \/ (IsTask(s.currentTask) /\ s.taskStart # None)

\* C21: whatever the task list, the empty one included, every step leaves
\* the controller in a state of the sequencer: no handler ends in an
\* uncaught error with no screen shown and no task running.
C21_NoAbort == InSequencerState

(***************************************************************************)
(* Sessions of three tasks, in which a goal-event task lies between a      *)
(* task ended from the bar and a recall task.                              *)
(***************************************************************************)
ListenerTaskLists == { <<ManualTask, GoalTask, RecallText>> }

ListenerInit ==
    /\ cfg \in {MergedCfg(tasks, NoOptions) : tasks \in ListenerTaskLists}
    /\ InitialState

ListenerSpec == ListenerInit /\ [][Next]_vars

\* C22: at most one goal listener is registered; it is for the goalEvent
\* of the current task, which is then a standard task declaring one whose
\* goal has not fired and which was not skipped; dispatching an event
\* that has no listener changes nothing.
C22_OneGoalListener ==
    /\ Cardinality(listeners) <= 1
    /\ \A l \in listeners :
          /\ CurrentIsGoal
          /\ l.event = TaskAt(s.currentTask).goalEvent
          /\ ~s.goalFired
          /\ ~(dom.modal.kind = "skip" /\ dom.modal.task = s.currentTask)

\* the TaskResults the step appends
Appended == {j \in 1..Len(s'.taskResults) : j > Len(s.taskResults)}

\* C23: once the goal trigger of the current task has fired, a step that
\* records a TaskResult for that task records completed = true: neither
\* during the goal delay nor while the goal modal is open can the skip
\* controls of the bar make it a skipped result.
C23_ReachedGoalNotSkipped ==
    [][\A j \in Appended :
          (s.goalFired /\ s'.taskResults[j].task = s.currentTask) =>
              s'.taskResults[j].completed]_vars

\* results holds the TaskResult that _finishRecall appends for the task
RecallRecorded(results, index) ==
    \E j \in ResultsOf(results, index) : results[j].taskType = "recall"

\* C24: once the recall TaskResult of a task is appended and its feedback
\* is showing, the bar cannot add a second TaskResult for the task: no
\* skipped result is appended for a task whose recall result exists, and
\* "Mark as done" does not act while the feedback is showing.
C24_FeedbackBarInert ==
    [][/\ \A j \in Appended :
             ~s'.taskResults[j].completed =>
                 ~RecallRecorded(s.taskResults, s'.taskResults[j].task)
       /\ ClickDone => dom.modal.kind # "recallFb"]_vars

\* the intro of the current task is showing and its clock has not started
IntroShowing ==
    /\ dom.modal.kind = "intro"
    /\ dom.modal.task = s.currentTask
    /\ s.taskStart = None

\* C25: while the intro of the current task is showing, a click on a
\* control of the bar opens no modal and schedules no goal modal, and no
\* skipped TaskResult is recorded for a task whose clock never started.
C25_IntroBarInert ==
    [][/\ (IntroShowing /\ UseBar) =>
              (dom'.modal = dom.modal /\ timers' = timers)
       /\ \A j \in Appended :
             (~s'.taskResults[j].completed /\ s'.taskResults[j].task = s.currentTask) =>
                 s.taskStart # None]_vars

(***************************************************************************)
(* The recall countdown.                                                   *)
(***************************************************************************)
\* the controller is within the current task: the bar is shown and neither
\* the final-feedback form nor the thank-you screen
WithinTask ==
    /\ dom.bar
    /\ dom.modal.kind \notin {"final", "thanks"}
    /\ IsTask(s.currentTask)

\* C26: a tick of the recall countdown fires only while the controller is
\* within the recall task that started it, so the question of a task is
\* never opened once the controller has moved on to the next task or to
\* the final-feedback form.
C26_CountdownWithinTask ==
    [][RecallTick =>
          (WithinTask /\ TaskAt(s.currentTask).type = "recall")]_vars

\* the recall countdown of the current task is running, no modal shown
CountdownRunning ==
    /\ iv.on
    /\ s.recallActive
    /\ dom.modal.kind = "none"

\* C27: while the countdown runs, no step triggers the goal, opens a modal
\* other than the recall question, or appends a TaskResult; the question
\* opens only by the tick that brings the countdown to zero.
C27_CountdownUninterruptible ==
    [][CountdownRunning =>
          /\ ~s'.goalFired
          /\ timers' = timers
          /\ s'.taskResults = s.taskResults
          /\ dom'.modal.kind \in {"none", "recallQ"}
          /\ dom'.modal.kind = "recallQ" => (RecallTick /\ iv.remaining <= 1)]_vars

\* sessions whose recall tasks have a short, a two-second and no configured
\* look window
CountdownTaskLists ==
    { <<ManualTask, RecallBrief>>,
      <<GoalTask>>,
      <<RecallOptions>>,
      <<RecallOpen>> }

CountdownInit ==
    /\ cfg \in {MergedCfg(tasks, NoOptions) : tasks \in CountdownTaskLists}
    /\ InitialState

CountdownSpec == CountdownInit /\ [][Next]_vars

\* lookDuration / 1000 rounded to the nearest integer, halves upwards;
\* 5 when the task configures no lookDuration
RoundedSeconds(task) ==
    IF task.lookDuration = 0 THEN 5
    ELSE CHOOSE n \in 0..(task.lookDuration \div 1000 + 1) :
             /\ 2 * task.lookDuration >= 2 * 1000 * n - 1000
             /\ 2 * task.lookDuration < 2 * 1000 * n + 1000

\* C28: "start timer" sets the countdown to the rounded seconds of the
\* task; a tick that does not open the question lowers it by one to a
\* positive value; the tick that opens the question brings it to exactly
\* 0, as many 1-second ticks after the start as the countdown began with.
C28_CountdownTicks ==
    [][/\ RecallGo =>
              (iv'.on /\ iv'.remaining = RoundedSeconds(TaskAt(s.currentTask)))
       /\ (RecallTick /\ dom'.modal.kind # "recallQ") =>
              (iv'.on /\ iv'.remaining = iv.remaining - 1 /\ iv'.remaining > 0)
       /\ (RecallTick /\ dom'.modal.kind = "recallQ") =>
              /\ iv.remaining - 1 = 0
              /\ s.taskStart # None
              /\ now - s.taskStart[1] =
                     RoundedSeconds(TaskAt(s.currentTask)) * IntervalMs]_vars

\* the recall answer is submitted
SubmitsAnswer ==
    \E answer \in RecallAnswers(TaskAt(dom.modal.task)) : RecallSubmit(answer)

\* C29: submitting the recall answer of task i shows the feedback modal of
\* task i when the task configures correctAnswer, and otherwise shows the
\* intro of task i+1, or the final-feedback form after the last task; the
\* feedback modal is opened by no other step.
C29_FeedbackIffKey ==
    [][/\ (dom.modal.kind = "recallQ" /\ SubmitsAnswer) =>
              LET i == dom.modal.task
              IN  IF TaskAt(i).correctAnswer # None
                  THEN dom'.modal.kind = "recallFb" /\ dom'.modal.task = i
                  ELSE IF i + 1 < Len(cfg.tasks)
                       THEN /\ dom'.modal.kind \in {"intro", "recallIntro"}
                            /\ dom'.modal.task = i + 1
                       ELSE dom'.modal.kind = "final"
       /\ (dom'.modal.kind = "recallFb" /\ dom.modal.kind # "recallFb") =>
              /\ dom.modal.kind = "recallQ"
              /\ TaskAt(dom'.modal.task).correctAnswer # None]_vars

\* C29 witness: the answer of a recall task without correctAnswer was
\* recorded and the intro of the next task is showing.
C29_Witness ==
    /\ Len(s.taskResults) = 1
    /\ s.taskResults[1].taskType = "recall"
    /\ TaskAt(s.taskResults[1].task).correctAnswer = None
    /\ dom.modal.kind = "intro"
    /\ dom.modal.task = 1

(***************************************************************************)
(* Sessions up to their submission in which the tester works on a task     *)
(* for a while before its completion trigger: task durations of seconds.   *)
(* Time also passes to the next due timer beyond the horizon of Tick.      *)
(***************************************************************************)
WorkTimes == {3000}

DurationTaskLists == { <<GoalTask, ManualTask>>, <<RecallText>> }

\* time passes while a task is active and no timer is pending
Work(d) ==
    /\ dom.modal.kind = "none"
    /\ s.taskStart # None
    /\ DueTimes = {}
    /\ now <= Horizon
    /\ now' = now + d
    /\ UNCHANGED <<cfg, s, dom, listeners, timers, iv, sent, net>>

DurationInit ==
    /\ cfg \in {MergedCfg(tasks, NoOptions) : tasks \in DurationTaskLists}
    /\ InitialState

\* a step that schedules a goal modal does so while its delay ends within
\* the horizon, or is the first trigger of its task
TriggerWithinWork ==
    Len(timers') > Len(timers) =>
        \/ now + GoalDelayMs <= Horizon
        \/ (timers = << >> /\ ~s.goalFired)

\* the steps of a session up to its submission
DurationNext ==
    /\ ~Submitted
    /\ \/ Next
       \/ \E d \in WorkTimes : Work(d)
       \/ TimerDue
    /\ TriggerWithinWork

DurationSpec == DurationInit /\ [][DurationNext]_vars

\* the step is a completion trigger: _goalReached schedules a goal modal
GoalTriggered == Len(timers') = Len(timers) + 1

\* C30: for a task whose intro was dismissed, the completion trigger (goal
\* event, done click, taskCompleted() call) and the "Yes, skip" click
\* capture now - taskStart; the goal delay hands that value unchanged to
\* the goal modal, and confirming the goal or skip modal records it as
\* durationMs, whatever time was spent in the modal; a goal result of a
\* positive duration is recorded at least the goal delay after its trigger.
C30_DurationUpToTrigger ==
    [][/\ (GoalTriggered /\ s.taskStart # None) =>
              timers'[Len(timers')].elapsed = now - s.taskStart[1]
       /\ (ClickSkipYes /\ IsTask(s.currentTask) /\ s.taskStart # None) =>
              dom'.modal.elapsed = now - s.taskStart[1]
       /\ GoalTimerFire => dom'.modal.elapsed = Head(timers).elapsed
       /\ \A j \in Appended :
             s'.taskResults[j].taskType # "recall" =>
                 /\ dom.modal.kind \in {"goal", "skip"}
                 /\ s'.taskResults[j].durationMs = dom.modal.elapsed
                 /\ (dom.modal.kind = "goal" /\ dom.modal.task = s.currentTask
                       /\ dom.modal.elapsed > 0 /\ s.taskStart # None) =>
                        s'.taskResults[j].durationMs + GoalDelayMs <= now - s.taskStart[1]]_vars

\* C30 witness: the payload of a session of two tasks: the goal of the
\* first fired 3000 ms after its intro was dismissed and was rated 4, the
\* second was skipped with a comment.
C30_Witness ==
    /\ Len(sent) = 1
    /\ Len(sent[1].tasks) = 2
    /\ sent[1].tasks[1].completed
    /\ sent[1].tasks[1].durationMs = 3000
    /\ sent[1].tasks[1].easeRating = Some(4)
    /\ ~sent[1].tasks[2].completed
    /\ sent[1].tasks[2].easeRating = Some(0)
    /\ sent[1].tasks[2].comment = "confusing"
    /\ sent[1].completedTasks = 1
    /\ sent[1].totalTasks = 2
    /\ now > 3000 + GoalDelayMs

(***************************************************************************)
(* Skip, the click trail, taskResults and currentTask.                     *)
(***************************************************************************)
\* the text without the spaces before its first and after its last
\* character that is not a space
WithoutOuterSpaces(txt) ==
    LET inner == {i \in 1..Len(txt) : SubSeq(txt, i, i) # " "}
    IN  IF inner = {} THEN ""
        ELSE SubSeq(txt,
                    CHOOSE i \in inner : \A j \in inner : i <= j,
                    CHOOSE i \in inner : \A j \in inner : j <= i)

\* the step shows the intro of the task after index, or the final-feedback
\* form after the last task
AdvancesFrom(index) ==
    IF index + 1 < Len(cfg.tasks)
    THEN /\ dom'.modal.kind \in {"intro", "recallIntro"}
         /\ dom'.modal.task = index + 1
         /\ s'.currentTask = index + 1
    ELSE dom'.modal.kind = "final"

\* confirming the skip modal appends one TaskResult for its task, with
\* completed = false, easeRating = 0 and the comment given
SkipRecords(comment) ==
    /\ Len(s'.taskResults) = Len(s.taskResults) + 1
    /\ SubSeq(s'.taskResults, 1, Len(s.taskResults)) = s.taskResults
    /\ LET r == s'.taskResults[Len(s'.taskResults)]
       IN  /\ r.task = dom.modal.task
           /\ r.task = s.currentTask
           /\ ~r.completed
           /\ r.easeRating = Some(0)
           /\ r.comment = comment
    /\ AdvancesFrom(dom.modal.task)

\* C31 as claimed: confirming the skip modal of task i appends exactly one
\* TaskResult for task i with completed = false, easeRating = 0 and the
\* comment as entered, and advances.
C31_SkipRecordsEntered ==
    [][\A c \in Comments : SkipNext(c) => SkipRecords(c)]_vars

\* C31 as amended: confirming the skip modal of task i appends exactly one
\* TaskResult for task i with completed = false, easeRating = 0 and the
\* entered comment without its leading and trailing white space, and
\* advances.
C31_SkipRecordsTrimmed ==
    [][\A c \in Comments : SkipNext(c) => SkipRecords(WithoutOuterSpaces(c))]_vars

\* C31 witness: the first task was skipped with a comment and the intro of
\* the second task is showing.
C31_Witness ==
    /\ Len(s.taskResults) = 1
    /\ ~s.taskResults[1].completed
    /\ s.taskResults[1].task = 0
    /\ s.taskResults[1].comment = "confusing"
    /\ s.taskResults[1].easeRating = Some(0)
    /\ dom.modal.kind = "intro"
    /\ dom.modal.task = 1

StartsTask == StartTesting \/ s'.currentTask # s.currentTask

\* C33: the click trail is empty while no task clock is running (at
\* Welcome and at every intro, so also when the clock starts) and right
\* after a task is started; a click is added to the trail only while the
\* clock is running, and never by a click on the bar or in a modal.
C33_ClickTrail ==
    /\ [](s.taskStart = None => s.clicks = << >>)
    /\ [][/\ StartsTask => s'.clicks = << >>
          /\ (IntroGo \/ RecallGo) => (s.clicks = << >> /\ s'.clicks = << >>)
          /\ Len(s'.clicks) > Len(s.clicks) => (s.taskStart # None /\ HostClick)
          /\ (UseBar \/ AnswerModal) => Len(s'.clicks) <= Len(s.clicks)]_vars

\* C33 witness: the intro of the second task is showing with an empty
\* trail, after a first task whose trail, kept in its TaskResult, was not
\* empty.
C33_Witness ==
    /\ dom.modal.kind = "intro"
    /\ dom.modal.task = 1
    /\ s.taskStart = None
    /\ s.clicks = << >>
    /\ Len(s.taskResults) = 1
    /\ s.taskResults[1].clicks # << >>

\* a goal modal or a skip modal is confirmed, or a recall answer submitted
RecordsResult ==
    \/ \E rating \in Ratings, comment \in Remarks : GoalNext(rating, comment)
    \/ \E comment \in Comments : SkipNext(comment)
    \/ (dom.modal.kind = "recallQ" /\ SubmitsAnswer)

\* C34: every step leaves the existing entries of taskResults and their
\* order unchanged; an entry is added only by confirming a goal modal,
\* confirming a skip modal or submitting a recall answer, and each of
\* these adds exactly one entry.
C34_AppendOnly ==
    [][/\ Len(s'.taskResults) >= Len(s.taskResults)
       /\ SubSeq(s'.taskResults, 1, Len(s.taskResults)) = s.taskResults
       /\ Len(s'.taskResults) > Len(s.taskResults) => RecordsResult
       /\ RecordsResult => Len(s'.taskResults) = Len(s.taskResults) + 1]_vars

\* C34 witness: the final-feedback form is showing after a first task
\* completed through its goal modal and a second task skipped.
C34_Witness ==
    /\ dom.modal.kind = "final"
    /\ sent = << >>
    /\ Len(s.taskResults) = 2
    /\ s.taskResults[1].task = 0 /\ s.taskResults[1].completed
    /\ s.taskResults[2].task = 1 /\ ~s.taskResults[2].completed

\* C35: in a session with a non-empty task list currentTask is always the
\* index of a configured task, and every step leaves it unchanged or
\* increases it by exactly 1.
C35_CurrentTaskMonotone ==
    /\ [](cfg.tasks # << >> => IsTask(s.currentTask))
    /\ [][cfg.tasks # << >> =>
             \/ s'.currentTask = s.currentTask
             \/ s'.currentTask = s.currentTask + 1]_vars

\* C35 witness: the second task of a session is active.
C35_Witness ==
    /\ s.currentTask = 1
    /\ s.taskStart # None
    /\ dom.modal.kind = "none"
    /\ dom.bar

====
